---- MODULE Spec2Model ----
(***************************************************************************)
(* The Minesweeper board (src/board.py): the grid of cells, lazy mine      *)
(* placement on the first open_cell call, flood-fill opening, flags, and   *)
(* the game-over / win flags.                                              *)
(***************************************************************************)
EXTENDS Integers, Sequences, FiniteSets, TLC

\* Boards of at most MaxCells cells holding at most MaxMines mines are explored,
\* with at most MaxFlags cells flagged at a time.
MaxCells == 6
MaxMines == 2
MaxFlags == 1
\* A game played by CSPSolver alone is explored on boards of at most
\* MaxCspCells cells: the solver opens no cell on a smaller board.
MaxCspCells == 9

VARIABLES
    rows,           \* Board.rows
    cols,           \* Board.cols
    num_mines,      \* Board.num_mines
    grid,           \* Board.grid: (row, col) -> Cell
    mines_placed,   \* Board.mines_placed
    game_over,      \* Board.game_over
    win,            \* Board.win
    raised,         \* the exception the latest call raised, "none" if it returned
    constructed,    \* whether Board.__init__ has returned the board
    moves           \* the list the caller holds from its latest next_moves call

\* What no method of a constructed Board assigns
config == <<rows, cols, num_mines, constructed, moves>>
board == <<grid, mines_placed, game_over, win>>
vars == <<rows, cols, num_mines, grid, mines_placed, game_over, win, raised,
          constructed, moves>>

----------------------------------------------------------------------------
\* class CellState
UNOPENED == "UNOPENED"
OPEN == "OPEN"
FLAGGED == "FLAGGED"
CellState == {UNOPENED, OPEN, FLAGGED}

\* dataclass Cell, as constructed by Cell(r, c); row and col are the key in grid
Cell == [is_mine |-> FALSE, adjacent_mines |-> 0, state |-> UNOPENED]

\* A variant of ValidConfig: as many mines as cells are accepted
ValidConfig_AllowsFull(r, c, m) == ~(r <= 0 \/ c <= 0) /\ ~(m <= 0 \/ m > r * c)

\* Board.__init__: the parameter check
ValidConfig(r, c, m) == ~(r <= 0 \/ c <= 0) /\ ~(m <= 0 \/ m >= r * c)

\* Board.__init__: the grid of fresh cells
NewGrid(r, c) == [rc \in (0 .. r - 1) \X (0 .. c - 1) |-> Cell]

Positions == (0 .. rows - 1) \X (0 .. cols - 1)

\* Board.in_bounds
in_bounds(row, col) == 0 <= row /\ row < rows /\ 0 <= col /\ col < cols

\* A variant of Offsets: the four orthogonal neighbours only
Offsets_NoDiagonals == << <<-1, 0>>, <<0, -1>>, <<0, 1>>, <<1, 0>> >>

\* Board.neighbors: the (dr, dc) pairs in the order the two loops visit them
Offsets ==
    << <<-1, -1>>, <<-1, 0>>, <<-1, 1>>,
       <<0, -1>>,             <<0, 1>>,
       <<1, -1>>,  <<1, 0>>,  <<1, 1>> >>

NeighborAt(row, col, i) == <<row + Offsets[i][1], col + Offsets[i][2]>>

InBoundsOffset(row, col, i) ==
    in_bounds(NeighborAt(row, col, i)[1], NeighborAt(row, col, i)[2])

\* Board.neighbors: the in-bounds neighbours, in iteration order
RECURSIVE NeighborsFrom(_, _, _)
NeighborsFrom(row, col, i) ==
    IF i > Len(Offsets) THEN <<>>
    ELSE IF InBoundsOffset(row, col, i)
         THEN <<NeighborAt(row, col, i)>> \o NeighborsFrom(row, col, i + 1)
         ELSE NeighborsFrom(row, col, i + 1)

neighbors(row, col) == NeighborsFrom(row, col, 1)

\* sum(1 for n in self.neighbors(row, col) if n.is_mine)
MineNeighborCount(g, row, col) ==
    LET ns == neighbors(row, col)
    IN  Cardinality({i \in 1 .. Len(ns) : g[ns[i]].is_mine})

\* Board._compute_adjacent_mine_counts
compute_adjacent_mine_counts(g) ==
    [rc \in DOMAIN g |->
        IF g[rc].is_mine
        THEN [g[rc] EXCEPT !.adjacent_mines = 0]
        ELSE [g[rc] EXCEPT !.adjacent_mines = MineNeighborCount(g, rc[1], rc[2])]]

\* Board._place_mines: all_positions
all_positions(first_click) == Positions \ {first_click}

\* A variant of MineSamples: the first click is not excluded from the sample
MineSamples_AnyPosition(first_click) ==
    {S \in SUBSET Positions : Cardinality(S) = num_mines}

\* A variant of MineSamples: sampling with replacement, so draws may coincide
MineSamples_WithReplacement(first_click) ==
    {S \in SUBSET all_positions(first_click) :
        1 <= Cardinality(S) /\ Cardinality(S) <= num_mines}

\* random.sample(population, k) as a set: k distinct elements of population
RECURSIVE Samples(_, _)
Samples(population, k) ==
    IF k = 0 THEN {{}}
    ELSE UNION {{S \cup {x} : x \in population \ S} : S \in Samples(population, k - 1)}

\* Board._place_mines: the results rng.sample(all_positions, num_mines) can give
MineSamples(first_click) == Samples(all_positions(first_click), num_mines)

\* Board._place_mines: the loop setting is_mine
SetMines(g, mine_positions) ==
    [rc \in DOMAIN g |->
        IF rc \in mine_positions THEN [g[rc] EXCEPT !.is_mine = TRUE] ELSE g[rc]]

\* Board._place_mines, for one outcome of the sample
place_mines(g, mine_positions) ==
    compute_adjacent_mine_counts(SetMines(g, mine_positions))

\* A variant of PushedNeighbors: only neighbours that are themselves zero
\* cells are pushed, so the numbered boundary stays hidden
PushedNeighbors_ZeroOnly(g, row, col) ==
    LET ns == neighbors(row, col)
        keep(rc) == /\ g[rc].state # OPEN /\ g[rc].state # FLAGGED /\ ~g[rc].is_mine
                    /\ g[rc].adjacent_mines = 0
    IN  SelectSeq(ns, keep)

\* Board._flood_fill_open: the neighbours a zero cell pushes, in order
\* A variant of PushedNeighbors that pushes every neighbour
PushedNeighbors_All(g, row, col) == neighbors(row, col)

PushedNeighbors(g, row, col) ==
    LET ns == neighbors(row, col)
        keep(rc) == g[rc].state # OPEN /\ g[rc].state # FLAGGED /\ ~g[rc].is_mine
    IN  SelectSeq(ns, keep)

\* A sequence back to front: the order in which stack.pop() empties a stack
Reverse(s) == [i \in 1 .. Len(s) |-> s[Len(s) + 1 - i]]

\* Board._flood_fill_open: the while loop, from a grid and a stack; popped
\* collects the coordinates in the order stack.pop() returned them. The
\* iterations that pop a cell and `continue` (it is open, flagged or a mine)
\* are taken together with the iteration that follows them.
RECURSIVE FloodLoop(_, _, _)
FloodLoop(g, stack, popped) ==
    LET skipped(i) == \/ g[stack[i]].state = OPEN
                      \/ g[stack[i]].state = FLAGGED
                      \/ g[stack[i]].is_mine
        live == {i \in 1 .. Len(stack) : ~skipped(i)}
    IN  IF live = {} THEN [grid |-> g, popped |-> popped \o Reverse(stack)]
        ELSE LET top == CHOOSE i \in live : \A j \in live : j <= i
                 rc == stack[top]
                 rest == SubSeq(stack, 1, top - 1)
                 cell == g[rc]
                 pops == popped \o Reverse(SubSeq(stack, top, Len(stack)))
                 g2 == [g EXCEPT ![rc].state = OPEN]
             IN  IF cell.adjacent_mines = 0
                 THEN FloodLoop(g2, rest \o PushedNeighbors(g2, rc[1], rc[2]), pops)
                 ELSE FloodLoop(g2, rest, pops)

\* A variant of the loop that does not look at flags, when popping or pushing
RECURSIVE FloodLoop_IgnoresFlags(_, _, _)
FloodLoop_IgnoresFlags(g, stack, popped) ==
    IF stack = <<>> THEN [grid |-> g, popped |-> popped]
    ELSE LET rc == stack[Len(stack)]
             rest == SubSeq(stack, 1, Len(stack) - 1)
             cell == g[rc]
             keep(n) == g[n].state # OPEN /\ ~g[n].is_mine /\ n # rc
         IN  IF cell.state = OPEN \/ cell.is_mine
             THEN FloodLoop_IgnoresFlags(g, rest, Append(popped, rc))
             ELSE LET g2 == [g EXCEPT ![rc].state = OPEN]
                  IN  IF cell.adjacent_mines = 0
                      THEN FloodLoop_IgnoresFlags(
                               g2, rest \o SelectSeq(neighbors(rc[1], rc[2]), keep),
                               Append(popped, rc))
                      ELSE FloodLoop_IgnoresFlags(g2, rest, Append(popped, rc))

flood_fill_open_IgnoresFlags(g, start_row, start_col) ==
    FloodLoop_IgnoresFlags(g, << <<start_row, start_col>> >>, <<>>)

\* Board._flood_fill_open
flood_fill_open(g, start_row, start_col) ==
    FloodLoop(g, << <<start_row, start_col>> >>, <<>>)

\* Board._flood_fill_open, one iteration of the while loop at a time, with a
\* record of what the loop did: the coordinates in the order they were marked
\* OPEN, every push with whether the cell was UNOPENED when it was pushed, and
\* the number of iterations
RECURSIVE FloodTrace(_, _, _)
FloodTrace(g, stack, trace) ==
    IF stack = <<>> THEN [grid |-> g] @@ trace
    ELSE LET rc == stack[Len(stack)]
             rest == SubSeq(stack, 1, Len(stack) - 1)
             cell == g[rc]
             count == [trace EXCEPT !.iterations = @ + 1]
         IN  IF cell.state = OPEN \/ cell.state = FLAGGED \/ cell.is_mine
             THEN FloodTrace(g, rest, count)
             ELSE LET g2 == [g EXCEPT ![rc].state = OPEN]
                      marked == [count EXCEPT !.marked = Append(@, rc)]
                      pushes == IF cell.adjacent_mines = 0
                                THEN PushedNeighbors(g2, rc[1], rc[2])
                                ELSE <<>>
                      record == [i \in DOMAIN pushes |->
                                    [rc |-> pushes[i],
                                     unopened |-> g2[pushes[i]].state = UNOPENED]]
                  IN  FloodTrace(g2, rest \o pushes,
                                 [marked EXCEPT !.pushed = @ \o record])

\* Board._flood_fill_open(start_row, start_col), with the record of the loop
flood_fill_trace(g, start_row, start_col) ==
    FloodTrace(g, << <<start_row, start_col>> >>,
               [marked |-> <<>>,
                pushed |-> << [rc |-> <<start_row, start_col>>,
                               unopened |-> g[<<start_row, start_col>>].state = UNOPENED] >>,
                iterations |-> 0])

\* A variant of all_safe_cells_opened: a flagged safe cell counts as opened
all_safe_cells_opened_CountsFlagged(g) ==
    \A rc \in DOMAIN g : ~(~g[rc].is_mine /\ g[rc].state = UNOPENED)

\* A variant of _all_safe_cells_opened: the mines must be open as well
all_safe_cells_opened_MinesToo(g) == \A rc \in DOMAIN g : g[rc].state = OPEN

\* Board._all_safe_cells_opened
all_safe_cells_opened(g) ==
    \A rc \in DOMAIN g : ~(~g[rc].is_mine /\ g[rc].state # OPEN)

\* Board.unopened_cells
unopened_cells(g) == {n \in DOMAIN g : g[n].state = UNOPENED}

\* Board.count_flags
count_flags(g) == Cardinality({rc \in DOMAIN g : g[rc].state = FLAGGED})

----------------------------------------------------------------------------
\* The configurations explored
Configs ==
    {cfg \in (1 .. MaxCells) \X (1 .. MaxCells) \X (1 .. MaxMines) :
        cfg[1] * cfg[2] <= MaxCells /\ ValidConfig(cfg[1], cfg[2], cfg[3])}

\* Coordinates a caller may pass: every cell, and one coordinate beyond each
\* of the four edges
OutOfRangeArgs == {<<-1, 0>>, <<rows, 0>>, <<0, -1>>, <<0, cols>>}
Args == Positions \cup OutOfRangeArgs

\* Board.__init__
Init ==
    /\ \E cfg \in Configs :
         /\ rows = cfg[1]
         /\ cols = cfg[2]
         /\ num_mines = cfg[3]
         /\ grid = NewGrid(cfg[1], cfg[2])
    /\ mines_placed = FALSE
    /\ game_over = FALSE
    /\ win = FALSE
    /\ raised = "none"
    /\ constructed = TRUE
    /\ moves = <<>>

\* A variant of OpenPlaced: a win sets win but not game_over
OpenPlaced_WinWithoutGameOver(g, row, col) ==
    LET cell == g[<<row, col>>]
    IN  IF cell.state = FLAGGED \/ cell.state = OPEN
        THEN /\ grid' = g
             /\ UNCHANGED <<game_over, win>>
        ELSE IF cell.is_mine
        THEN /\ grid' = [g EXCEPT ![<<row, col>>].state = OPEN]
             /\ game_over' = TRUE
             /\ win' = FALSE
        ELSE LET filled == flood_fill_open(g, row, col).grid
             IN  /\ grid' = filled
                 /\ IF all_safe_cells_opened(filled)
                    THEN win' = TRUE /\ UNCHANGED game_over
                    ELSE UNCHANGED <<game_over, win>>

\* A variant of OpenPlaced: the opened mine is not marked OPEN
OpenPlaced_MineStaysHidden(g, row, col) ==
    LET cell == g[<<row, col>>]
    IN  IF cell.state = FLAGGED \/ cell.state = OPEN
        THEN /\ grid' = g
             /\ UNCHANGED <<game_over, win>>
        ELSE IF cell.is_mine
        THEN /\ grid' = g
             /\ game_over' = TRUE
             /\ win' = FALSE
        ELSE LET filled == flood_fill_open(g, row, col).grid
             IN  /\ grid' = filled
                 /\ IF all_safe_cells_opened(filled)
                    THEN game_over' = TRUE /\ win' = TRUE
                    ELSE UNCHANGED <<game_over, win>>

\* Board.open_cell, after the bounds and game_over checks, on the grid g that
\* mine placement left (or the grid as it was when mines were already placed)
OpenPlaced(g, row, col) ==
    LET cell == g[<<row, col>>]
    IN  IF cell.state = FLAGGED \/ cell.state = OPEN
        THEN /\ grid' = g
             /\ UNCHANGED <<game_over, win>>
        ELSE IF cell.is_mine
        THEN /\ grid' = [g EXCEPT ![<<row, col>>].state = OPEN]
             /\ game_over' = TRUE
             /\ win' = FALSE
        ELSE LET filled == flood_fill_open(g, row, col).grid
             IN  /\ grid' = filled
                 /\ IF all_safe_cells_opened(filled)
                    THEN game_over' = TRUE /\ win' = TRUE
                    ELSE UNCHANGED <<game_over, win>>

\* A variant of OpenCell: the game_over check is missing
OpenCell_NoGameOverCheck(row, col) ==
    /\ UNCHANGED config
    /\ IF ~in_bounds(row, col)
       THEN raised' = "IndexError" /\ UNCHANGED board
       ELSE IF ~mines_placed
       THEN /\ raised' = "none"
            /\ mines_placed' = TRUE
            /\ \E mine_positions \in MineSamples(<<row, col>>) :
                   OpenPlaced(place_mines(grid, mine_positions), row, col)
       ELSE /\ raised' = "none"
            /\ UNCHANGED mines_placed
            /\ OpenPlaced(grid, row, col)

\* A variant of OpenCell that places the mines on every open
OpenCell_PlacesEachTime(row, col) ==
    /\ UNCHANGED config
    /\ IF ~in_bounds(row, col)
       THEN raised' = "IndexError" /\ UNCHANGED board
       ELSE IF game_over
       THEN raised' = "none" /\ UNCHANGED board
       ELSE IF num_mines > Cardinality(all_positions(<<row, col>>))
       THEN raised' = "ValueError" /\ UNCHANGED board
       ELSE /\ raised' = "none"
            /\ mines_placed' = TRUE
            /\ \E mine_positions \in MineSamples(<<row, col>>) :
                   OpenPlaced(place_mines(grid, mine_positions), row, col)

\* Board.open_cell
OpenCell(row, col) ==
    /\ UNCHANGED config
    /\ IF ~in_bounds(row, col)
       THEN raised' = "IndexError" /\ UNCHANGED board
       ELSE IF game_over
       THEN raised' = "none" /\ UNCHANGED board
       ELSE IF ~mines_placed
       THEN IF num_mines > Cardinality(all_positions(<<row, col>>))
            THEN raised' = "ValueError" /\ UNCHANGED board
            ELSE /\ raised' = "none"
                 /\ mines_placed' = TRUE
                 /\ \E mine_positions \in MineSamples(<<row, col>>) :
                        OpenPlaced(place_mines(grid, mine_positions), row, col)
       ELSE /\ raised' = "none"
            /\ UNCHANGED mines_placed
            /\ OpenPlaced(grid, row, col)

\* A variant of flag_cell: the game_over check is missing
flag_cell_NoGameOverCheck(g, over, row, col) ==
    LET cell == g[<<row, col>>]
    IN  IF cell.state = OPEN THEN g
        ELSE IF cell.state = UNOPENED
        THEN [g EXCEPT ![<<row, col>>].state = FLAGGED]
        ELSE [g EXCEPT ![<<row, col>>].state = UNOPENED]

\* A variant of flag_cell: a flag, once set, is never taken off
flag_cell_NeverUnflags(g, over, row, col) ==
    IF over THEN g
    ELSE LET cell == g[<<row, col>>]
         IN  IF cell.state = UNOPENED
             THEN [g EXCEPT ![<<row, col>>].state = FLAGGED]
             ELSE g

\* Board.flag_cell, after the bounds check: the grid it leaves
flag_cell(g, over, row, col) ==
    IF over THEN g
    ELSE LET cell == g[<<row, col>>]
         IN  IF cell.state = OPEN THEN g
             ELSE IF cell.state = UNOPENED
             THEN [g EXCEPT ![<<row, col>>].state = FLAGGED]
             ELSE IF cell.state = FLAGGED
             THEN [g EXCEPT ![<<row, col>>].state = UNOPENED]
             ELSE g

\* A variant of FlagCell: game_over is tested before the bounds
FlagCell_GameOverFirst(row, col) ==
    /\ UNCHANGED config
    /\ UNCHANGED <<mines_placed, game_over, win>>
    /\ IF game_over
       THEN raised' = "none" /\ UNCHANGED grid
       ELSE IF ~in_bounds(row, col)
       THEN raised' = "IndexError" /\ UNCHANGED grid
       ELSE /\ raised' = "none"
            /\ grid' = flag_cell(grid, game_over, row, col)

\* Board.flag_cell
FlagCell(row, col) ==
    /\ UNCHANGED config
    /\ UNCHANGED <<mines_placed, game_over, win>>
    /\ IF ~in_bounds(row, col)
       THEN raised' = "IndexError" /\ UNCHANGED grid
       ELSE /\ raised' = "none"
            /\ grid' = flag_cell(grid, game_over, row, col)

\* A variant of reveal_all_mines: a flagged mine keeps its flag
RevealAllMines_SkipsFlagged ==
    /\ UNCHANGED config
    /\ UNCHANGED <<mines_placed, game_over, win>>
    /\ raised' = "none"
    /\ grid' = [rc \in DOMAIN grid |->
                  IF grid[rc].is_mine /\ grid[rc].state # FLAGGED
                  THEN [grid[rc] EXCEPT !.state = OPEN]
                  ELSE grid[rc]]

\* Board.reveal_all_mines
RevealAllMines ==
    /\ UNCHANGED config
    /\ UNCHANGED <<mines_placed, game_over, win>>
    /\ raised' = "none"
    /\ grid' = [rc \in DOMAIN grid |->
                  IF grid[rc].is_mine THEN [grid[rc] EXCEPT !.state = OPEN]
                  ELSE grid[rc]]

Open == \E rc \in Args : OpenCell(rc[1], rc[2])

\* The caller does not ask for a flag beyond MaxFlags standing ones
FlagAllowed(rc) ==
    (rc \in Positions /\ grid[rc].state = UNOPENED) => count_flags(grid) < MaxFlags

Flag == \E rc \in Args : FlagAllowed(rc) /\ FlagCell(rc[1], rc[2])

\* Any sequence of open_cell, flag_cell and reveal_all_mines calls
Next == Open \/ Flag \/ RevealAllMines
Spec == Init /\ [][Next]_vars

\* Play through open_cell and flag_cell alone
NextGame == Open \/ Flag
SpecGame == Init /\ [][NextGame]_vars

\* The arguments Board(rows, cols, num_mines) is called with: the valid
\* configurations explored, and invalid ones around them
ArgConfigs ==
    {cfg \in (-1 .. MaxCells) \X (-1 .. MaxCells) \X (-1 .. MaxCells) :
        /\ cfg[1] * cfg[2] <= MaxCells
        /\ cfg[3] <= MaxMines \/ cfg[3] >= cfg[1] * cfg[2]}

\* Before Board(rows, cols, num_mines) runs: the arguments are chosen, there is
\* no board yet
InitArgs ==
    /\ \E cfg \in ArgConfigs :
         /\ rows = cfg[1]
         /\ cols = cfg[2]
         /\ num_mines = cfg[3]
    /\ grid = <<>>
    /\ mines_placed = FALSE
    /\ game_over = FALSE
    /\ win = FALSE
    /\ raised = "none"
    /\ constructed = FALSE
    /\ moves = <<>>

\* Board.__init__
Construct ==
    /\ ~constructed /\ raised = "none"
    /\ UNCHANGED <<rows, cols, num_mines, moves>>
    /\ IF ~ValidConfig(rows, cols, num_mines)
       THEN raised' = "ValueError" /\ UNCHANGED <<constructed, board>>
       ELSE /\ raised' = "none"
            /\ constructed' = TRUE
            /\ mines_placed' = FALSE
            /\ game_over' = FALSE
            /\ win' = FALSE
            /\ grid' = NewGrid(rows, cols)

\* Play on a board that was constructed
PlayConstructed == constructed /\ NextGame

\* Board(rows, cols, num_mines) with any arguments, then play if it succeeded
NextConstruct == Construct \/ PlayConstructed
SpecConstruct == InitArgs /\ [][NextConstruct]_vars

\* Scenario A: Board(5, 5, 1), then play
InitScenarioA ==
    /\ rows = 5 /\ cols = 5 /\ num_mines = 1
    /\ grid = NewGrid(5, 5)
    /\ mines_placed = FALSE
    /\ game_over = FALSE
    /\ win = FALSE
    /\ raised = "none"
    /\ constructed = TRUE
    /\ moves = <<>>

\* Scenario A: the first move is open_cell(0, 0); the player then goes on opening
OpenFirst == ~mines_placed /\ OpenCell(0, 0)
OpenOn == mines_placed /\ Open
NextScenarioA == OpenFirst \/ OpenOn
SpecScenarioA == InitScenarioA /\ [][NextScenarioA]_vars

----------------------------------------------------------------------------
\* solver/utils.py and solver/csp_solver.py: constraints and deduction

Range(s) == {s[i] : i \in DOMAIN s}

\* The order of Python tuples (row, col)
TupleLess(a, b) == a[1] < b[1] \/ (a[1] = b[1] /\ a[2] < b[2])

\* sorted(S) for a set of (row, col) tuples
RECURSIVE sorted(_)
sorted(S) ==
    IF S = {} THEN <<>>
    ELSE LET first == CHOOSE x \in S : \A y \in S : x = y \/ TupleLess(x, y)
         IN  <<first>> \o sorted(S \ {first})

\* A variant of Move with coordinates counted from one
Move_OneIndexed(action, rc) == [action |-> action, row |-> rc[1] + 1, col |-> rc[2] + 1]

\* Move(action, row, col)
Move(action, rc) == [action |-> action, row |-> rc[1], col |-> rc[2]]

\* A variant of MoveList with the flags ahead of the opens
MoveList_FlagsFirst(to_open, to_flag) ==
    LET opens == sorted(to_open)
        flags == sorted(to_flag)
    IN  [i \in 1 .. Len(flags) |-> Move("flag", flags[i])]
          \o [i \in 1 .. Len(opens) |-> Move("open", opens[i])]

\* A variant of MoveList that lists the flag moves twice
MoveList_FlagsTwice(to_open, to_flag) ==
    LET opens == sorted(to_open)
        flags == sorted(to_flag)
    IN  [i \in 1 .. Len(opens) |-> Move("open", opens[i])]
          \o [i \in 1 .. Len(flags) |-> Move("flag", flags[i])]
          \o [i \in 1 .. Len(flags) |-> Move("flag", flags[i])]

\* The end of basic_logical_moves and _subset_reasoning: the opens in sorted
\* order, then the flags in sorted order
MoveList(to_open, to_flag) ==
    LET opens == sorted(to_open)
        flags == sorted(to_flag)
    IN  [i \in 1 .. Len(opens) |-> Move("open", opens[i])]
          \o [i \in 1 .. Len(flags) |-> Move("flag", flags[i])]

\* The cells a move list flags
Flags(list) ==
    {<<list[i].row, list[i].col>> : i \in {k \in DOMAIN list : list[k].action = "flag"}}

\* The cells a move list opens
Opens(list) ==
    {<<list[i].row, list[i].col>> : i \in {k \in DOMAIN list : list[k].action = "open"}}

\* Board.iter_cells: the coordinates in row-major order
iter_cells == [i \in 1 .. rows * cols |-> <<(i - 1) \div cols, (i - 1) % cols>>]

\* A variant of get_unknown_neighbors that takes the flagged neighbours too
get_unknown_neighbors_WithFlagged(g, row, col) ==
    LET hidden(rc) == g[rc].state # OPEN
    IN  SelectSeq(neighbors(row, col), hidden)

get_unknown_neighbors(g, row, col) ==
    LET unopened(rc) == g[rc].state = UNOPENED
    IN  SelectSeq(neighbors(row, col), unopened)

get_flagged_neighbors(g, row, col) ==
    LET flagged(rc) == g[rc].state = FLAGGED
    IN  SelectSeq(neighbors(row, col), flagged)

get_frontier_cells(g) ==
    LET frontier(rc) ==
            /\ g[rc].state = OPEN
            /\ ~g[rc].is_mine
            /\ g[rc].adjacent_mines # 0
            /\ get_unknown_neighbors(g, rc[1], rc[2]) # <<>>
    IN  SelectSeq(iter_cells, frontier)

\* Constraint(row, col, clue, unknown, flagged)
Constraint(rc, clue, unknown, flagged) ==
    [row |-> rc[1], col |-> rc[2], clue |-> clue, unknown |-> unknown,
     flagged |-> flagged]

build_constraints(g) ==
    LET cells == get_frontier_cells(g)
    IN  [i \in 1 .. Len(cells) |->
            Constraint(cells[i], g[cells[i]].adjacent_mines,
                       get_unknown_neighbors(g, cells[i][1], cells[i][2]),
                       Len(get_flagged_neighbors(g, cells[i][1], cells[i][2])))]

\* A variant of basic_rule: the flag rule compares the clue, not what remains
\* of it after the flags, with the number of unknown neighbours
basic_rule_IgnoresFlagged(c) ==
    LET remaining == c.clue - c.flagged
    IN  IF remaining < 0 \/ remaining > Len(c.unknown)
        THEN [open |-> {}, flag |-> {}]
        ELSE IF remaining = 0
        THEN [open |-> Range(c.unknown), flag |-> {}]
        ELSE IF c.clue = Len(c.unknown)
        THEN [open |-> {}, flag |-> Range(c.unknown)]
        ELSE [open |-> {}, flag |-> {}]

\* basic_logical_moves: what one constraint adds to to_open and to_flag
basic_rule(c) ==
    LET remaining == c.clue - c.flagged
    IN  IF remaining < 0 \/ remaining > Len(c.unknown)
        THEN [open |-> {}, flag |-> {}]
        ELSE IF remaining = 0
        THEN [open |-> Range(c.unknown), flag |-> {}]
        ELSE IF remaining = Len(c.unknown)
        THEN [open |-> {}, flag |-> Range(c.unknown)]
        ELSE [open |-> {}, flag |-> {}]

\* A variant of basic_moves that lists the moves of each constraint in turn,
\* without gathering them in the sets to_open and to_flag
RECURSIVE basic_moves_PerConstraint(_)
basic_moves_PerConstraint(constraints) ==
    IF constraints = <<>> THEN <<>>
    ELSE MoveList(basic_rule(Head(constraints)).open, basic_rule(Head(constraints)).flag)
           \o basic_moves_PerConstraint(Tail(constraints))

\* basic_logical_moves, from the constraints on
basic_moves(constraints) ==
    MoveList(UNION {basic_rule(constraints[i]).open : i \in DOMAIN constraints},
             UNION {basic_rule(constraints[i]).flag : i \in DOMAIN constraints})

basic_logical_moves(g) == basic_moves(build_constraints(g))

\* A variant of subset_rule: the difference is flagged as soon as it holds a mine
subset_rule_FlagsAnyMine(cA, cB) ==
    LET setA == Range(cA.unknown)
        setB == Range(cB.unknown)
        diff == setB \ setA
        diff_remaining == (cB.clue - cB.flagged) - (cA.clue - cA.flagged)
    IN  IF ~(setA \subseteq setB) \/ diff = {}
        THEN [open |-> {}, flag |-> {}]
        ELSE IF diff_remaining < 0 \/ diff_remaining > Cardinality(diff)
        THEN [open |-> {}, flag |-> {}]
        ELSE IF diff_remaining = 0
        THEN [open |-> diff, flag |-> {}]
        ELSE [open |-> {}, flag |-> diff]

\* A variant of subset_rule that takes the difference of any two constraints,
\* whether or not the first is contained in the second
subset_rule_AnyPair(cA, cB) ==
    LET setA == Range(cA.unknown)
        setB == Range(cB.unknown)
        diff == setB \ setA
        diff_remaining == (cB.clue - cB.flagged) - (cA.clue - cA.flagged)
    IN  IF diff = {}
        THEN [open |-> {}, flag |-> {}]
        ELSE IF diff_remaining < 0 \/ diff_remaining > Cardinality(diff)
        THEN [open |-> {}, flag |-> {}]
        ELSE IF diff_remaining = 0
        THEN [open |-> diff, flag |-> {}]
        ELSE IF diff_remaining = Cardinality(diff)
        THEN [open |-> {}, flag |-> diff]
        ELSE [open |-> {}, flag |-> {}]

\* CSPSolver._subset_reasoning: what the pair (cA, cB) adds to to_open and to_flag
subset_rule(cA, cB) ==
    LET setA == Range(cA.unknown)
        setB == Range(cB.unknown)
        diff == setB \ setA
        diff_remaining == (cB.clue - cB.flagged) - (cA.clue - cA.flagged)
    IN  IF ~(setA \subseteq setB) \/ diff = {}
        THEN [open |-> {}, flag |-> {}]
        ELSE IF diff_remaining < 0 \/ diff_remaining > Cardinality(diff)
        THEN [open |-> {}, flag |-> {}]
        ELSE IF diff_remaining = 0
        THEN [open |-> diff, flag |-> {}]
        ELSE IF diff_remaining = Cardinality(diff)
        THEN [open |-> {}, flag |-> diff]
        ELSE [open |-> {}, flag |-> {}]

\* CSPSolver._subset_reasoning
subset_reasoning(constraints) ==
    LET kept(c) ==
            /\ c.unknown # <<>>
            /\ ~(c.clue - c.flagged < 0 \/ c.clue - c.flagged > Cardinality(Range(c.unknown)))
        processed == SelectSeq(constraints, kept)
        pairs == {p \in (DOMAIN processed) \X (DOMAIN processed) : p[1] # p[2]}
    IN  MoveList(UNION {subset_rule(processed[p[1]], processed[p[2]]).open : p \in pairs},
                 UNION {subset_rule(processed[p[1]], processed[p[2]]).flag : p \in pairs})

\* A variant of CSPSolver.next_moves that runs the subset reasoning after the
\* basic rules whatever they found
csp_next_moves_AlwaysSubsets(g) ==
    basic_logical_moves(g) \o subset_reasoning(build_constraints(g))

\* CSPSolver.next_moves
csp_next_moves(g) ==
    LET basic == basic_logical_moves(g)
    IN  IF basic # <<>> THEN basic ELSE subset_reasoning(build_constraints(g))

----------------------------------------------------------------------------
\* solver/probabilistic_solver.py. A probability is a pair <<n, d>> standing
\* for the float n / d, d > 0; on the small integers met here two such floats
\* compare as the fractions do.

MAX_ENUM_UNKNOWNS == 15

FracLess(p, q) == p[1] * q[2] < q[1] * p[2]

\* constraint_components: the components of the graph that joins two
\* constraints when their unknown cells intersect, as sets of indices
RECURSIVE ComponentOf(_, _)
ComponentOf(constraints, seen) ==
    LET more == {j \in DOMAIN constraints :
                   \E i \in seen :
                       Range(constraints[i].unknown) \cap Range(constraints[j].unknown) # {}}
    IN  IF more \subseteq seen THEN seen ELSE ComponentOf(constraints, seen \cup more)

constraint_components(constraints) ==
    {ComponentOf(constraints, {i}) : i \in DOMAIN constraints}

\* exact_component_probs: the unknown cells of a component
ComponentUnknowns(constraints, comp) ==
    UNION {Range(constraints[i].unknown) : i \in comp}

\* A variant of ValidAssignments that leaves the flagged neighbours out of the
\* count of mines around a clue
ValidAssignments_IgnoresFlagged(constraints, comp) ==
    {A \in SUBSET ComponentUnknowns(constraints, comp) :
        \A i \in comp :
            Cardinality(A \cap Range(constraints[i].unknown)) = constraints[i].clue}

\* exact_component_probs: the assignments of mines to the unknown cells of a
\* component that satisfy each of its constraints
ValidAssignments(constraints, comp) ==
    {A \in SUBSET ComponentUnknowns(constraints, comp) :
        \A i \in comp :
            Cardinality(A \cap Range(constraints[i].unknown)) + constraints[i].flagged
              = constraints[i].clue}

\* exact_component_probs: whether it returns a dictionary rather than None
HasExactProbs(constraints, comp) ==
    /\ Cardinality(ComponentUnknowns(constraints, comp)) <= MAX_ENUM_UNKNOWNS
    /\ ValidAssignments(constraints, comp) # {}

\* exact_component_probs: the dictionary, counts[coord] / total for each cell
\* (f @@ <<>> is f, held as a table of its values)
exact_component_probs(constraints, comp) ==
    LET valid == ValidAssignments(constraints, comp)
    IN  [coord \in ComponentUnknowns(constraints, comp) |->
            <<Cardinality({A \in valid : coord \in A}), Cardinality(valid)>>] @@ <<>>

\* A variant of global_mine_density that does not take the flags off the mines
global_mine_density_IgnoresFlags(g) ==
    <<num_mines, Cardinality(unopened_cells(g))>>

\* global_mine_density, when there are unopened cells
global_mine_density(g) ==
    LET rem_mines == num_mines - count_flags(g)
    IN  <<IF rem_mines < 0 THEN 0 ELSE rem_mines, Cardinality(unopened_cells(g))>>

\* max(0.0, min(1.0, p))
Clamp(p) == IF p[1] > p[2] THEN <<1, 1>> ELSE IF p[1] < 0 THEN <<0, 1>> ELSE p

\* ProbabilisticSolver._probabilistic_move: cell_prob
cell_prob(g) ==
    LET constraints == build_constraints(g)
        exact == {comp \in constraint_components(constraints) :
                    HasExactProbs(constraints, comp)}
        comp_probs == [comp \in exact |-> exact_component_probs(constraints, comp)] @@ <<>>
        base_p == global_mine_density(g)
    IN  [coord \in unopened_cells(g) |->
            IF \E comp \in exact : coord \in DOMAIN comp_probs[comp]
            THEN LET comp == CHOOSE c \in exact : coord \in DOMAIN comp_probs[c]
                 IN  Clamp(comp_probs[comp][coord])
            ELSE Clamp(base_p)] @@ <<>>

\* A variant of Candidates without the risk gate
Candidates_NoRiskGate(g) ==
    LET probs == cell_prob(g)
    IN  {coord \in DOMAIN probs :
            \A other \in DOMAIN probs : ~FracLess(probs[other], probs[coord])}

\* ProbabilisticSolver._probabilistic_move: the cells rng.choice draws from
Candidates(g) ==
    LET probs == cell_prob(g)
        constraints == build_constraints(g)
        frontier_cells == UNION {Range(constraints[i].unknown) : i \in DOMAIN constraints}
        minimal == {coord \in DOMAIN probs :
                      \A other \in DOMAIN probs : ~FracLess(probs[other], probs[coord])}
        outside == minimal \ frontier_cells
        risky == \E coord \in minimal : 4 * probs[coord][1] > probs[coord][2]
    IN  IF risky /\ outside # {} THEN outside ELSE minimal

\* A variant of _probabilistic_move without the check of board.game_over
probabilistic_move_IgnoresGameOver(g, over) ==
    IF unopened_cells(g) = {} THEN {<<>>}
    ELSE {<<Move("open", coord)>> : coord \in Candidates(g)}

\* A variant of _probabilistic_move that can choose any cell of the board
probabilistic_move_AnyCell(g, over) ==
    IF over \/ unopened_cells(g) = {} THEN {<<>>}
    ELSE {<<Move("open", coord)>> : coord \in DOMAIN g}

\* ProbabilisticSolver._probabilistic_move: the lists it can return
probabilistic_move(g, over) ==
    IF over \/ unopened_cells(g) = {} THEN {<<>>}
    ELSE {<<Move("open", coord)>> : coord \in Candidates(g)}

\* ProbabilisticSolver.next_moves: the lists it can return
prob_next_moves_BasicOnly(g, over) == {basic_logical_moves(g)}

prob_next_moves(g, over) ==
    LET basic == basic_logical_moves(g)
    IN  IF basic # <<>> THEN {basic} ELSE probabilistic_move(g, over)

\* A variant of CspNextMoves that carries out the flag moves it returns
CspNextMoves_AppliesFlags ==
    /\ UNCHANGED <<rows, cols, num_mines, constructed>>
    /\ UNCHANGED <<mines_placed, game_over, win>>
    /\ raised' = "none"
    /\ moves' = csp_next_moves(grid)
    /\ grid' = [rc \in DOMAIN grid |->
                  IF rc \in Flags(csp_next_moves(grid))
                  THEN [grid[rc] EXCEPT !.state = FLAGGED]
                  ELSE grid[rc]]

\* CSPSolver.next_moves(board), called by play_step
CspNextMoves ==
    /\ UNCHANGED <<rows, cols, num_mines, constructed>>
    /\ UNCHANGED board
    /\ raised' = "none"
    /\ moves' = csp_next_moves(grid)

\* ProbabilisticSolver.next_moves(board), called by play_step
ProbNextMoves ==
    /\ UNCHANGED <<rows, cols, num_mines, constructed>>
    /\ UNCHANGED board
    /\ raised' = "none"
    /\ moves' \in prob_next_moves(grid, game_over)

\* The caller lets go of the list it holds
Discard ==
    /\ moves # <<>>
    /\ moves' = <<>>
    /\ UNCHANGED <<rows, cols, num_mines, constructed, board, raised>>

\* A player opens and flags cells of the board, flags of any kind included;
\* between two of the player's moves a solver may be asked for its next moves
PlayerOpen == moves = <<>> /\ Open
PlayerFlag == moves = <<>> /\ Flag
CspQuery == moves = <<>> /\ CspNextMoves
ProbQuery == moves = <<>> /\ ProbNextMoves
NextQuery == PlayerOpen \/ PlayerFlag \/ CspQuery \/ ProbQuery \/ Discard
SpecQuery == Init /\ [][NextQuery]_vars

----------------------------------------------------------------------------
\* BaseSolver.play_step: the returned moves are applied one by one through
\* open_cell and flag_cell. A board is written as a record of the four
\* fields these methods assign; a call yields the board it leaves and the
\* exception it raised ("none" if it returned).

BoardNow ==
    [grid |-> grid, mines_placed |-> mines_placed, game_over |-> game_over, win |-> win]

\* Board.open_cell from after mine placement: the board it leaves
open_placed(b, g, row, col) ==
    LET cell == g[<<row, col>>]
        placed == [b EXCEPT !.grid = g, !.mines_placed = TRUE]
    IN  IF cell.state = FLAGGED \/ cell.state = OPEN THEN placed
        ELSE IF cell.is_mine
        THEN [placed EXCEPT !.grid = [g EXCEPT ![<<row, col>>].state = OPEN],
                            !.game_over = TRUE, !.win = FALSE]
        ELSE LET filled == flood_fill_open(g, row, col).grid
             IN  IF all_safe_cells_opened(filled)
                 THEN [placed EXCEPT !.grid = filled, !.game_over = TRUE, !.win = TRUE]
                 ELSE [placed EXCEPT !.grid = filled]

\* Board.open_cell(row, col) on board b: the outcomes it can have, one for
\* each result of the mine sample when it is the call that places the mines
open_cell(b, row, col) ==
    IF ~in_bounds(row, col) THEN {[board |-> b, raised |-> "IndexError"]}
    ELSE IF b.game_over THEN {[board |-> b, raised |-> "none"]}
    ELSE IF ~b.mines_placed
    THEN IF num_mines > Cardinality(all_positions(<<row, col>>))
         THEN {[board |-> b, raised |-> "ValueError"]}
         ELSE {[board |-> open_placed(b, place_mines(b.grid, mine_positions), row, col),
                raised |-> "none"] : mine_positions \in MineSamples(<<row, col>>)}
    ELSE {[board |-> open_placed(b, b.grid, row, col), raised |-> "none"]}

\* Board.flag_cell(row, col) on board b
flag_cell_call(b, row, col) ==
    IF ~in_bounds(row, col) THEN {[board |-> b, raised |-> "IndexError"]}
    ELSE {[board |-> [b EXCEPT !.grid = flag_cell(b.grid, b.game_over, row, col)],
           raised |-> "none"]}

\* play_step: the for loop over the moves from the i-th on; `changed` tells,
\* for each move applied so far, whether its call changed the board. An
\* exception ends the loop.
RECURSIVE ApplyMoves(_, _, _, _)
ApplyMoves(b, list, i, changed) ==
    IF i > Len(list) THEN {[board |-> b, raised |-> "none", changed |-> changed]}
    ELSE LET outcomes == IF list[i].action = "open"
                         THEN open_cell(b, list[i].row, list[i].col)
                         ELSE flag_cell_call(b, list[i].row, list[i].col)
         IN  UNION {IF o.raised # "none"
                    THEN {[board |-> o.board, raised |-> o.raised, changed |-> changed]}
                    ELSE ApplyMoves(o.board, list, i + 1, Append(changed, o.board # b)) :
                    o \in outcomes}

\* play_step with the list next_moves returned: the ways it can end
play_step(list) == ApplyMoves(BoardNow, list, 1, <<>>)

\* play_step ending as `run`: the board is left as the calls left it; the
\* caller gets the list unless an exception came out instead
PlayStepEnds(list, run) ==
    /\ UNCHANGED <<rows, cols, num_mines, constructed>>
    /\ grid' = run.board.grid
    /\ mines_placed' = run.board.mines_placed
    /\ game_over' = run.board.game_over
    /\ win' = run.board.win
    /\ raised' = run.raised
    /\ moves' = IF run.raised = "none" THEN list ELSE moves

\* CSPSolver.play_step(board)
CspPlayStep ==
    \E run \in play_step(csp_next_moves(grid)) :
        PlayStepEnds(csp_next_moves(grid), run)

\* ProbabilisticSolver.play_step(board)
ProbPlayStep ==
    \E list \in prob_next_moves(grid, game_over) :
        \E run \in play_step(list) : PlayStepEnds(list, run)

\* A player opens and flags cells of the board, and lets a solver play a step
\* at any point; the caller looks at the returned list and lets go of it
PlayerOpenIn == moves = <<>> /\ \E rc \in Positions : OpenCell(rc[1], rc[2])
PlayerFlagIn ==
    moves = <<>> /\ \E rc \in Positions : FlagAllowed(rc) /\ FlagCell(rc[1], rc[2])
CspStep == moves = <<>> /\ CspPlayStep
ProbStep == moves = <<>> /\ ProbPlayStep
NextPlay == PlayerOpenIn \/ PlayerFlagIn \/ CspStep \/ ProbStep \/ Discard
SpecPlay == Init /\ [][NextPlay]_vars

----------------------------------------------------------------------------
\* Helpers of the properties below

\* The board as Board.__init__ left it
Fresh ==
    /\ ~mines_placed /\ ~game_over /\ ~win
    /\ \A rc \in Positions : grid[rc] = Cell

Mines == {rc \in Positions : grid[rc].is_mine}
OpenCells == {rc \in Positions : grid[rc].state = OPEN}
SafeHidden == {rc \in Positions : ~grid[rc].is_mine /\ grid[rc].state # OPEN}
Lost == game_over /\ ~win

\* The mines among the up to 8 cells around (row, col), recounted from the
\* coordinates alone
BruteForceCount(row, col) ==
    Cardinality({n \in Positions :
        /\ n # <<row, col>>
        /\ n[1] - row \in {-1, 0, 1}
        /\ n[2] - col \in {-1, 0, 1}
        /\ grid[n].is_mine})

----------------------------------------------------------------------------
\* C1: the first open_cell call on a freshly constructed board, on any
\* in-bounds cell, places the mines, leaves the clicked cell a non-mine and
\* OPEN, and does not lose the game.
C1_FirstClickSafe ==
    [][\A rc \in Positions :
         (Fresh /\ OpenCell(rc[1], rc[2])) =>
             /\ mines_placed'
             /\ ~grid'[rc].is_mine
             /\ grid'[rc].state = OPEN
             /\ ~(game_over' /\ ~win')]_vars

\* C1 witness: right after a first click that did not end the game: mines are
\* placed, a safe cell is open, no flag was ever needed and play goes on.
C1_Witness ==
    /\ mines_placed /\ ~game_over /\ raised = "none"
    /\ Cardinality(Mines) = num_mines
    /\ OpenCells # {} /\ OpenCells \cap Mines = {}
    /\ count_flags(grid) = 0

\* C2: the first open_cell call that reveals a cell (whatever flag_cell and
\* open_cell calls came before it) places the mines, reveals no mine and does
\* not lose the game.
C2_FirstSuccessfulOpenSafe ==
    [][(OpenCells = {} /\ OpenCells' # {}) =>
          /\ mines_placed'
          /\ \A rc \in Positions : grid'[rc].state = OPEN => ~grid'[rc].is_mine
          /\ ~(game_over' /\ ~win')]_vars

\* C3: open_cell on a FLAGGED cell changes nothing of the board, in every
\* state, also before the mines are placed.
C3_OpenFlaggedIsNoOp ==
    [][\A rc \in Positions :
         (grid[rc].state = FLAGGED /\ OpenCell(rc[1], rc[2])) =>
             UNCHANGED <<config, board>>]_vars

\* C4: no cell is a mine while mines_placed is false, and exactly num_mines
\* cells are mines once it is true.
C4_MineCount ==
    Cardinality(Mines) = (IF mines_placed THEN num_mines ELSE 0)

\* C4 witness: two mines placed on a board where play went on with a flag.
C4_Witness ==
    /\ mines_placed /\ num_mines = 2 /\ Cardinality(Mines) = 2
    /\ count_flags(grid) > 0 /\ OpenCells # {}

\* C5: once mines are placed, every non-mine cell's adjacent_mines is the
\* brute-force count of the mines among its in-bounds neighbours.
C5_AdjacencyCorrect ==
    mines_placed =>
        \A rc \in Positions :
            ~grid[rc].is_mine => grid[rc].adjacent_mines = BruteForceCount(rc[1], rc[2])

\* C5 witness: a placed board with a cell that touches two mines, one of them
\* diagonally, and a cell that touches none.
C5_Witness ==
    /\ mines_placed
    /\ \E rc \in Positions :
         /\ ~grid[rc].is_mine /\ grid[rc].adjacent_mines = 2
         /\ \E m \in Mines : m[1] # rc[1] /\ m[2] # rc[2]
    /\ \E rc \in Positions : ~grid[rc].is_mine /\ grid[rc].adjacent_mines = 0

\* C6: open_cell or flag_cell on an OPEN cell, or on any in-bounds cell once
\* game_over is true, leaves the whole board (cells and flags) as it was: a
\* step that changes the board is no such call.
C6_NoOpIdempotent ==
    [][UNCHANGED <<config, board>>
         \/ \A rc \in Positions :
               ~(/\ grid[rc].state = OPEN \/ game_over
                 /\ OpenCell(rc[1], rc[2]) \/ FlagCell(rc[1], rc[2]))]_vars

\* C6 witness: a finished game that still has hidden and flagged cells, which a
\* call could have changed, after a call that returned normally.
C6_Witness ==
    /\ game_over /\ raised = "none"
    /\ OpenCells # {}
    /\ \E rc \in Positions : grid[rc].state = UNOPENED
    /\ \E rc \in Positions : grid[rc].state = FLAGGED

\* C7: under open_cell and flag_cell, mines_placed and game_over never go back
\* to false, win does not change once game_over is true, and always
\* win => game_over and game_over => mines_placed.
C7_OneDirectional ==
    /\ [](  (win => game_over) /\ (game_over => mines_placed))
    /\ [][/\ mines_placed => mines_placed'
          /\ game_over => (game_over' /\ win' = win)]_vars

\* C7 witness: a won game.
C7_Witness == game_over /\ win /\ mines_placed /\ SafeHidden = {}

\* C8: under open_cell and flag_cell, once mines are placed, win is true
\* exactly when every non-mine cell is OPEN.
C8_WinIffAllSafeOpen ==
    mines_placed => (win <=> SafeHidden = {})

\* C8 witness: a game won in a state where a mine is still flagged and another
\* mine is hidden.
C8_Witness ==
    /\ mines_placed /\ win /\ SafeHidden = {}
    /\ \E rc \in Mines : grid[rc].state = FLAGGED
    /\ \E rc \in Mines : grid[rc].state = UNOPENED

\* C9: open_cell on a hidden mine while the game is not over marks that cell
\* OPEN, sets game_over and clears win, and changes no other cell; so under
\* open_cell and flag_cell a mine is OPEN only in a lost game, and at most
\* one mine is ever OPEN.
C9_MineOpenLoses ==
    /\ [][\A rc \in Positions :
            (/\ ~game_over /\ mines_placed
             /\ grid[rc].is_mine /\ grid[rc].state = UNOPENED
             /\ OpenCell(rc[1], rc[2])) =>
                /\ grid' = [grid EXCEPT ![rc].state = OPEN]
                /\ game_over' /\ ~win']_vars
    /\ []((Mines \cap OpenCells # {}) => Lost)
    /\ [](Cardinality(Mines \cap OpenCells) <= 1)

\* C9 witness: a lost game on a two-mine board: one mine is OPEN, the other is
\* not, and a safe cell is still hidden.
C9_Witness ==
    /\ Lost /\ num_mines = 2
    /\ Cardinality(Mines \cap OpenCells) = 1
    /\ SafeHidden # {}

\* C10: flag_cell on an in-bounds cell that is not OPEN, while the game is not
\* over, toggles that cell between UNOPENED and FLAGGED and changes nothing
\* else; a second flag_cell on the same cell restores the grid.
C10_FlagToggles ==
    /\ [][\A rc \in Positions :
            (~game_over /\ grid[rc].state # OPEN /\ FlagCell(rc[1], rc[2])) =>
                /\ grid' = [grid EXCEPT ![rc].state =
                               IF grid[rc].state = UNOPENED THEN FLAGGED ELSE UNOPENED]
                /\ UNCHANGED <<config, mines_placed, game_over, win>>]_vars
    /\ [](\A rc \in Positions :
            (~game_over /\ grid[rc].state # OPEN) =>
                flag_cell(flag_cell(grid, game_over, rc[1], rc[2]),
                          game_over, rc[1], rc[2]) = grid)

\* C10 witness: a game in play, mines placed, with a flagged and a hidden cell.
C10_Witness ==
    /\ ~game_over /\ mines_placed /\ raised = "none"
    /\ \E rc \in Positions : grid[rc].state = FLAGGED
    /\ \E rc \in Positions : grid[rc].state = UNOPENED

\* C11: open_cell and flag_cell with coordinates outside the grid raise
\* IndexError in every state, also after game_over, and leave the board as it
\* was (no mine placement): a step that does anything else is no such call.
C11_OutOfRangeRaises ==
    [][(raised' = "IndexError" /\ UNCHANGED <<config, board>>)
         \/ \A rc \in OutOfRangeArgs :
               ~(OpenCell(rc[1], rc[2]) \/ FlagCell(rc[1], rc[2]))]_vars

\* C11 witness: an IndexError raised in a finished game.
C11_Witness == raised = "IndexError" /\ game_over /\ mines_placed

\* C12 as claimed: a move on an out-of-bounds coordinate, or on any coordinate
\* after the game has ended, returns normally and leaves the board as it was.
C12_SafeNoOpNotThrown ==
    [][(raised' = "none" /\ UNCHANGED <<config, board>>)
         \/ \A rc \in Args :
               ~(/\ ~in_bounds(rc[1], rc[2]) \/ game_over
                 /\ OpenCell(rc[1], rc[2]) \/ FlagCell(rc[1], rc[2]))]_vars

\* C12 as amended: such a move leaves the board as it was; on an in-bounds
\* coordinate after the game has ended it returns normally, on an
\* out-of-bounds coordinate it raises IndexError.
C12_NoOpRaisesOnlyOutOfRange ==
    [][/\ (raised' = "IndexError" /\ UNCHANGED <<config, board>>)
            \/ \A rc \in OutOfRangeArgs :
                  ~(OpenCell(rc[1], rc[2]) \/ FlagCell(rc[1], rc[2]))
       /\ game_over =>
            \/ (raised' = "none" /\ UNCHANGED <<config, board>>)
            \/ \A rc \in Positions :
                  ~(OpenCell(rc[1], rc[2]) \/ FlagCell(rc[1], rc[2]))]_vars

\* C12 witness: a lost game with a safe cell still hidden, after a call that
\* returned normally.
C12_Witness ==
    /\ Lost /\ raised = "none"
    /\ \E rc \in SafeHidden : grid[rc].state = UNOPENED


\* C13: Board(rows, cols, num_mines) raises ValueError exactly when rows <= 0
\* or cols <= 0 or num_mines <= 0 or num_mines >= rows * cols; otherwise it
\* gives a board of rows x cols cells, each hidden, no mine, adjacent_mines 0,
\* with mines_placed, game_over and win all false.
C13_ConstructionValidates ==
    [][Construct =>
         /\ (raised' = "ValueError") <=>
                (rows <= 0 \/ cols <= 0 \/ num_mines <= 0 \/ num_mines >= rows * cols)
         /\ raised' = "ValueError" => (~constructed' /\ UNCHANGED board)
         /\ raised' # "ValueError" =>
                /\ raised' = "none" /\ constructed'
                /\ DOMAIN grid' = Positions
                /\ Fresh']_vars

\* C13 witness: construction refused for a board with as many mines as cells.
C13_Witness ==
    /\ ~constructed /\ raised = "ValueError"
    /\ rows >= 1 /\ cols >= 1 /\ num_mines = rows * cols


\* The cells whose visible state a step changes
Changed == {rc \in Positions : grid'[rc].state # grid[rc].state}

\* C14: the flood fill of open_cell never opens a mine and never changes a
\* flagged cell: on every open_cell step on a cell that is not a mine, every
\* cell whose state changed was UNOPENED and not a mine before the call, and
\* is OPEN and not a mine after it.
C14_FloodFillOpensOnlyHiddenSafe ==
    [][(\A rc \in Changed :
            /\ grid[rc].state = UNOPENED /\ ~grid[rc].is_mine
            /\ grid'[rc].state = OPEN /\ ~grid'[rc].is_mine)
         \/ \A rc \in Positions :
               ~(~grid'[rc].is_mine /\ OpenCell(rc[1], rc[2]))]_vars

\* C14 witness: a flood fill has opened several cells while a flagged safe
\* cell next to an opened zero cell is still flagged.
C14_Witness ==
    /\ ~game_over /\ Cardinality(OpenCells) >= 3
    /\ \E f \in Positions :
         /\ grid[f].state = FLAGGED /\ ~grid[f].is_mine
         /\ \E z \in OpenCells :
              /\ grid[z].adjacent_mines = 0
              /\ f # z /\ f[1] - z[1] \in -1 .. 1 /\ f[2] - z[2] \in -1 .. 1


\* Whether two coordinates are neighbours on the board
Adjacent(a, b) == a # b /\ a[1] - b[1] \in -1 .. 1 /\ a[2] - b[2] \in -1 .. 1

\* The least set that contains S and, for every zero-adjacency cell in it, the
\* neighbours of that cell that are in `through`; adjacency is read from g
RECURSIVE RegionFrom(_, _, _)
RegionFrom(g, S, through) ==
    LET T == S \cup {n \in through :
                       \E z \in S : g[z].adjacent_mines = 0 /\ Adjacent(z, n)}
    IN  IF T = S THEN S ELSE RegionFrom(g, T, through)

\* The calls _flood_fill_open(row, col) that open_cell can make in the current
\* state, each with the grid it runs on: the grid as it is once mines are
\* placed, and every grid the placement can give on the first open
FillCalls ==
    IF game_over THEN {}
    ELSE IF mines_placed
    THEN {<<grid, rc>> : rc \in SafeHidden \ {f \in Positions : grid[f].state = FLAGGED}}
    ELSE UNION {{<<place_mines(grid, ms), rc>> : ms \in MineSamples(rc)} :
                   rc \in {h \in Positions : grid[h].state = UNOPENED}}

\* The cells _flood_fill_open(rc) opens on grid g
FillOpened(g, rc) ==
    LET filled == flood_fill_open(g, rc[1], rc[2]).grid
    IN  {n \in Positions : g[n].state # OPEN /\ filled[n].state = OPEN}

\* C15 as stated: opening a hidden zero-adjacency cell opens exactly the
\* least set that contains the start cell and, for every zero-adjacency cell
\* in it, all neighbours of that cell; opening a hidden cell with a positive
\* adjacency count opens that cell only.
C15_RegionOfAllNeighbours ==
    \A call \in FillCalls :
        LET g == call[1]
            rc == call[2]
        IN  FillOpened(g, rc) =
               IF g[rc].adjacent_mines = 0
               THEN RegionFrom(g, {rc}, Positions)
               ELSE {rc}

\* C15 amended: opening a hidden zero-adjacency cell opens exactly the least
\* set that contains the start cell and, for every zero-adjacency cell in it,
\* the neighbours of that cell that were hidden (neither flagged nor already
\* open) before the call; opening a hidden cell with a positive adjacency
\* count opens that cell only.
C15_RegionOfHiddenNeighbours ==
    \A call \in FillCalls :
        LET g == call[1]
            rc == call[2]
        IN  FillOpened(g, rc) =
               IF g[rc].adjacent_mines = 0
               THEN RegionFrom(g, {rc}, unopened_cells(g))
               ELSE {rc}

\* C15 witness: a fill has opened four or more cells and stopped at a flagged
\* zero-adjacency cell, which is still flagged next to an open zero cell.
C15_Witness ==
    /\ ~game_over /\ Cardinality(OpenCells) >= 4
    /\ \E f \in Positions :
         /\ grid[f].state = FLAGGED /\ ~grid[f].is_mine /\ grid[f].adjacent_mines = 0
         /\ \E z \in OpenCells : grid[z].adjacent_mines = 0 /\ Adjacent(z, f)

\* Scenario A: open_cell(0, 0) as the first move of the 5x5 board, the one mine
\* being placed at (4, 4)
ScenarioAStep ==
    /\ Fresh /\ rows = 5 /\ cols = 5 /\ num_mines = 1
    /\ grid'[<<4, 4>>].is_mine
    /\ OpenCell(0, 0)

\* C16 as stated: in scenario A, open_cell(0, 0) leaves game_over false and the
\* fill opens the cells connected to (0, 0).
C16_ScenarioANotOver ==
    [][ScenarioAStep =>
         /\ ~game_over'
         /\ {rc \in Positions : grid'[rc].state = OPEN}
              = RegionFrom(grid', {<<0, 0>>}, Positions)]_vars

\* C16 amended: in scenario A, open_cell(0, 0) opens the cells connected to
\* (0, 0), which are all 24 cells other than the mine, so the game ends at
\* once with game_over and win both true.
C16_ScenarioAWins ==
    [][ScenarioAStep =>
         /\ game_over' /\ win'
         /\ {rc \in Positions : grid'[rc].state = OPEN}
              = RegionFrom(grid', {<<0, 0>>}, Positions)
         /\ {rc \in Positions : grid'[rc].state = OPEN} = Positions \ {<<4, 4>>}]_vars

\* C16 witness: the 5x5 board after the first move opened (0, 0) with the mine
\* at (4, 4), no flag ever set.
C16_Witness ==
    /\ rows = 5 /\ cols = 5 /\ grid[<<4, 4>>].is_mine
    /\ grid[<<0, 0>>].state = OPEN
    /\ count_flags(grid) = 0
    /\ Cardinality(OpenCells) = 24


\* C17: reveal_all_mines opens every mine (hidden or flagged) and changes
\* nothing else: game_over, win, mines_placed, is_mine and adjacent_mines of
\* every cell and the state of every cell that is not a mine are unchanged, in
\* whatever state it is called.
C17_RevealAllMinesFrame ==
    [][(/\ UNCHANGED <<mines_placed, game_over, win>>
        /\ \A rc \in Positions :
             /\ grid'[rc].is_mine = grid[rc].is_mine
             /\ grid'[rc].adjacent_mines = grid[rc].adjacent_mines
             /\ grid'[rc].state = IF grid[rc].is_mine THEN OPEN ELSE grid[rc].state)
         \/ ~RevealAllMines]_vars

\* C17 witness: both mines of a two-mine board are open while the game is
\* still on and a cell that is not a mine keeps its flag.
C17_Witness ==
    /\ ~game_over /\ mines_placed /\ Cardinality(Mines) = 2
    /\ \A m \in Mines : grid[m].state = OPEN
    /\ \E f \in Positions : grid[f].state = FLAGGED


\* The assignments of mines to the unknown cells of the constraints that
\* satisfy every constraint: clue = flagged + mines among unknown
ConsistentAssignments(constraints) ==
    LET unknowns == UNION {Range(constraints[i].unknown) : i \in DOMAIN constraints}
    IN  {A \in SUBSET unknowns :
           \A i \in DOMAIN constraints :
               constraints[i].clue
                 = constraints[i].flagged
                     + Cardinality(A \cap Range(constraints[i].unknown))}

\* C18: every cell that the basic rules or subset elimination return as a flag
\* move (next_moves of the CSP solver returns the list of one or of the other)
\* is a mine in every assignment of mines to the unknown cells that satisfies
\* all current constraints.
C18_DeductionSound ==
    LET constraints == build_constraints(grid)
        flagged == Flags(basic_moves(constraints))
                     \cup Flags(subset_reasoning(constraints))
    IN  flagged # {} =>
            \A A \in ConsistentAssignments(constraints) : flagged \subseteq A

\* C18 witness: the basic rules find nothing, subset elimination flags a cell,
\* and the constraints have a consistent assignment.
C18_Witness ==
    /\ ~game_over
    /\ basic_logical_moves(grid) = <<>>
    /\ Flags(csp_next_moves(grid)) # {}
    /\ ConsistentAssignments(build_constraints(grid)) # {}


\* C19: the moves of basic_logical_moves are exactly the union over the
\* constraints, with remaining = clue - flagged: an open move for every unknown
\* cell of a constraint with remaining 0, a flag move for every unknown cell of
\* a constraint with remaining equal to the number of its unknown cells, and
\* nothing from a constraint with remaining below 0 or above that number. The
\* constraint clue 1 over {(1,1)} gives Flag (1,1); a constraint with
\* remaining 0 over {(2,2), (2,3)} gives Open of both.
C19_BasicMovesAreTheUnion ==
    LET constraints == build_constraints(grid)
        returned == basic_moves(constraints)
        remaining(i) == constraints[i].clue - constraints[i].flagged
        unknown(i) == Range(constraints[i].unknown)
    IN  /\ Opens(returned) =
              UNION {unknown(i) : i \in {k \in DOMAIN constraints : remaining(k) = 0}}
        /\ Flags(returned) =
              UNION {unknown(i) :
                       i \in {k \in DOMAIN constraints :
                                remaining(k) = Cardinality(unknown(k))}}
        /\ Len(returned) = Cardinality(Opens(returned)) + Cardinality(Flags(returned))
        /\ basic_moves(<<Constraint(<<0, 0>>, 1, << <<1, 1>> >>, 0)>>)
              = <<Move("flag", <<1, 1>>)>>
        /\ basic_moves(<<Constraint(<<1, 2>>, 1, << <<2, 2>>, <<2, 3>> >>, 1)>>)
              = <<Move("open", <<2, 2>>), Move("open", <<2, 3>>)>>

\* C19 witness: a constraint whose remaining count is 0 only because of a
\* flagged neighbour yields open moves, and another constraint yields flags.
C19_Witness ==
    LET constraints == build_constraints(grid)
        returned == basic_logical_moves(grid)
    IN  /\ ~game_over
        /\ \E i \in DOMAIN constraints :
              constraints[i].flagged > 0 /\ constraints[i].clue = constraints[i].flagged
        /\ Opens(returned) # {} /\ Flags(returned) # {}


\* C20: next_moves of the CSP solver and of the probabilistic solver do not
\* touch the board: every call, in every reachable state, leaves each cell,
\* mines_placed, game_over and win as they were (so it places no mines).
C20_NextMovesPure ==
    [][UNCHANGED <<grid, mines_placed, game_over, win>>
         \/ ~(CspNextMoves \/ ProbNextMoves)]_vars

\* C20 witness: a solver has returned a flag move on a board that still has
\* the cell hidden, and the player has set a flag of their own.
C20_Witness ==
    /\ ~game_over /\ count_flags(grid) > 0
    /\ \E i \in DOMAIN moves :
         moves[i].action = "flag" /\ grid[<<moves[i].row, moves[i].col>>].state = UNOPENED

\* Every operation that writes to the board: the player's opens and flags,
\* play_step of both solvers (next_moves, then the moves applied), and
\* reveal_all_mines, which the drivers call once the game is lost
PlayerReveal == moves = <<>> /\ game_over /\ ~win /\ RevealAllMines
NextAll == PlayerOpenIn \/ PlayerFlagIn \/ PlayerReveal \/ CspStep \/ ProbStep \/ Discard
SpecAll == Init /\ [][NextAll]_vars

\* A game played by ProbabilisticSolver alone: the driver may open one cell of
\* the fresh board, then the loop `while not board.game_over` calls play_step
\* and goes round again. The loop keeps running: the solver's step is taken
\* whenever it stays possible (weak fairness of ProbGameStep, with the
\* condition under which the step changes the state written out as the state
\* predicate ProbGameStepEnabled), and so is the return to the loop's head
DriverFirstOpen == Fresh /\ moves = <<>> /\ \E rc \in Positions : OpenCell(rc[1], rc[2])
ProbGameStep == ~game_over /\ ProbStep
ProbGameStepEnabled ==
    /\ ~game_over /\ moves = <<>>
    /\ \E list \in prob_next_moves(grid, game_over) :
         \E run \in play_step(list) :
            \/ run.board # BoardNow
            \/ run.raised # raised
            \/ (run.raised = "none" /\ list # moves)
NextProbGame == DriverFirstOpen \/ ProbGameStep \/ Discard
SpecProbGame ==
    /\ Init
    /\ [][NextProbGame]_vars
    /\ []<>~ProbGameStepEnabled \/ []<><<ProbGameStep>>_vars
    /\ WF_vars(Discard)

\* A game played by CSPSolver alone: the first cell is opened for it on the
\* fresh board, then the loop of play_game calls play_step while the game is
\* not over
CspGameConfigs ==
    {cfg \in (1 .. MaxCspCells) \X (1 .. MaxCspCells) \X (1 .. MaxMines) :
        cfg[1] * cfg[2] <= MaxCspCells /\ ValidConfig(cfg[1], cfg[2], cfg[3])}
InitCspGame ==
    /\ \E cfg \in CspGameConfigs :
         /\ rows = cfg[1]
         /\ cols = cfg[2]
         /\ num_mines = cfg[3]
         /\ grid = NewGrid(cfg[1], cfg[2])
    /\ mines_placed = FALSE
    /\ game_over = FALSE
    /\ win = FALSE
    /\ raised = "none"
    /\ constructed = TRUE
    /\ moves = <<>>
CspGameStep == mines_placed /\ ~game_over /\ CspStep
NextCspGame == DriverFirstOpen \/ CspGameStep \/ Discard
SpecCspGame == InitCspGame /\ [][NextCspGame]_vars

\* The lists next_moves of either solver can return in the current state
NextMovesLists == {csp_next_moves(grid)} \cup prob_next_moves(grid, game_over)

\* C21: play_step returns the moves actually applied: on every play_step that
\* returns, each move of the returned list changed the board when it was
\* applied.
C21_ReturnedMovesAllApplied ==
    [][\A list \in NextMovesLists :
         \A run \in play_step(list) :
             (moves = <<>> /\ run.raised = "none" /\ PlayStepEnds(list, run))
                => \A i \in DOMAIN list : run.changed[i]]_vars


\* The constraints basic_logical_moves and _subset_reasoning skip
Inconsistent(c) == c.clue - c.flagged < 0 \/ c.clue - c.flagged > Len(c.unknown)

\* C22: in every state of a game played by a player and the two solvers, no
\* play_step has raised (each move it applied was an "open" or a "flag" of an
\* in-bounds coordinate), and next_moves has a list to return: rng.choice is
\* never given an empty list and no division is by zero.
C22_SolversNeverFail ==
    /\ raised = "none"
    /\ prob_next_moves(grid, game_over) # {}
    /\ (unopened_cells(grid) # {} => global_mine_density(grid)[2] > 0)

\* A play_step has opened one numbered cell and nothing else, and that cell
\* was the unknown neighbour of an open numbered cell with more flags around
\* it than its clue: the step computed its move over an inconsistent constraint
C22_Witness ==
    /\ raised = "none"
    /\ ~game_over
    /\ Len(moves) = 1
    /\ moves[1].action = "open"
    /\ LET rc == <<moves[1].row, moves[1].col>>
       IN  /\ grid[rc].state = OPEN
           /\ grid[rc].adjacent_mines > 0
           /\ \E anchor \in Positions :
                 /\ Adjacent(anchor, rc)
                 /\ grid[anchor].state = OPEN
                 /\ ~grid[anchor].is_mine
                 /\ grid[anchor].adjacent_mines > 0
                 /\ Len(get_flagged_neighbors(grid, anchor[1], anchor[2]))
                      > grid[anchor].adjacent_mines


\* The sum of f over the set S
RECURSIVE Sum(_, _)
Sum(f, S) ==
    IF S = {} THEN 0
    ELSE LET x == CHOOSE y \in S : TRUE
         IN  f[x] + Sum(f, S \ {x})

\* The components of the constraints of the board for which
\* exact_component_probs returns probabilities
ExactComponents ==
    {comp \in constraint_components(build_constraints(grid)) :
        HasExactProbs(build_constraints(grid), comp)}

\* C23: for every component that exact_component_probs enumerates, each
\* probability counts[coord] / total lies in [0, 1], and for each constraint of
\* the component the counts of its unknown cells add up to
\* (clue - flagged) * total, that is, their probabilities add up to
\* clue - flagged.
C23_ProbabilitiesNormalized ==
    LET constraints == build_constraints(grid)
    IN  \A comp \in constraint_components(constraints) :
            HasExactProbs(constraints, comp) =>
                LET probs == exact_component_probs(constraints, comp)
                    counts == [coord \in DOMAIN probs |-> probs[coord][1]]
                IN  /\ \A coord \in DOMAIN probs :
                          /\ probs[coord][2] > 0
                          /\ 0 <= probs[coord][1]
                          /\ probs[coord][1] <= probs[coord][2]
                    /\ \A i \in comp :
                          \A coord \in Range(constraints[i].unknown) :
                              Sum(counts, Range(constraints[i].unknown))
                                = (constraints[i].clue - constraints[i].flagged)
                                     * probs[coord][2]

\* An enumerated component of two constraints or more, one of them with a
\* flagged neighbour, and a cell whose probability is neither 0 nor 1
C23_Witness ==
    LET constraints == build_constraints(grid)
    IN  \E comp \in ExactComponents :
            /\ Cardinality(comp) >= 2
            /\ \E i \in comp : constraints[i].flagged > 0
            /\ \E coord \in ComponentUnknowns(constraints, comp) :
                  LET p == exact_component_probs(constraints, comp)[coord]
                  IN  0 < p[1] /\ p[1] < p[2]


\* The neighbours of rc that are in the given state
NeighboursIn(rc, state) ==
    {n \in Positions : Adjacent(n, rc) /\ grid[n].state = state}

\* The open numbered cells that are no mine and touch an unopened cell
Anchors ==
    {rc \in Positions :
        /\ grid[rc].state = OPEN
        /\ ~grid[rc].is_mine
        /\ grid[rc].adjacent_mines > 0
        /\ NeighboursIn(rc, UNOPENED) # {}}

\* C24: build_constraints returns, in row-major order of the anchor, exactly
\* one constraint for each open numbered non-mine cell that has an unopened
\* unflagged neighbour; its clue is the number of the cell, its unknown cells
\* are those neighbours, each once, never none, and its flagged count is the
\* number of flagged neighbours.
C24_BuildConstraintsExact ==
    LET constraints == build_constraints(grid)
        anchor(i) == <<constraints[i].row, constraints[i].col>>
    IN  /\ {anchor(i) : i \in DOMAIN constraints} = Anchors
        /\ \A i, j \in DOMAIN constraints : i < j => TupleLess(anchor(i), anchor(j))
        /\ \A i \in DOMAIN constraints :
              /\ constraints[i].clue = grid[anchor(i)].adjacent_mines
              /\ constraints[i].unknown # <<>>
              /\ Range(constraints[i].unknown) = NeighboursIn(anchor(i), UNOPENED)
              /\ Len(constraints[i].unknown)
                   = Cardinality(NeighboursIn(anchor(i), UNOPENED))
              /\ constraints[i].flagged
                   = Cardinality(NeighboursIn(anchor(i), FLAGGED))

\* Two constraints, one of them with a flagged neighbour, on a board that
\* also has an open numbered cell whose hidden neighbours are all flagged
C24_Witness ==
    /\ Len(build_constraints(grid)) >= 2
    /\ \E i \in DOMAIN build_constraints(grid) : build_constraints(grid)[i].flagged > 0
    /\ \E rc \in Positions \ Anchors :
          /\ grid[rc].state = OPEN
          /\ ~grid[rc].is_mine
          /\ grid[rc].adjacent_mines > 0
          /\ NeighboursIn(rc, FLAGGED) # {}


\* clue - flagged of the constraint anchored at rc
Remaining(rc) == grid[rc].adjacent_mines - Cardinality(NeighboursIn(rc, FLAGGED))

\* The anchors whose constraint is consistent
ConsistentAnchors ==
    {rc \in Anchors :
        0 <= Remaining(rc) /\ Remaining(rc) <= Cardinality(NeighboursIn(rc, UNOPENED))}

\* The ordered pairs (A, B) of distinct consistent constraints with the
\* unknown cells of A among those of B and some cell of B left over
SubsetPairs ==
    {p \in ConsistentAnchors \X ConsistentAnchors :
        /\ p[1] # p[2]
        /\ NeighboursIn(p[1], UNOPENED) \subseteq NeighboursIn(p[2], UNOPENED)
        /\ NeighboursIn(p[2], UNOPENED) \ NeighboursIn(p[1], UNOPENED) # {}}

\* B minus A, and remaining(B) - remaining(A)
Diff(p) == NeighboursIn(p[2], UNOPENED) \ NeighboursIn(p[1], UNOPENED)
Delta(p) == Remaining(p[2]) - Remaining(p[1])

\* C25: CSPSolver.next_moves returns the moves of the basic rules when there
\* are any; otherwise it opens exactly the cells of diff of the pairs with
\* remaining(B) - remaining(A) = 0 and flags exactly the cells of diff of the
\* pairs with remaining(B) - remaining(A) = |diff|, and nothing else.
C25_CspNextMovesExact ==
    LET basic == basic_logical_moves(grid)
        list == csp_next_moves(grid)
        safe == UNION {Diff(p) : p \in {q \in SubsetPairs : Delta(q) = 0}}
        mine == UNION {Diff(p) : p \in {q \in SubsetPairs : Delta(q) = Cardinality(Diff(q))}}
    IN  /\ basic # <<>> => list = basic
        /\ basic = <<>> =>
              /\ Opens(list) = safe
              /\ Flags(list) = mine
              /\ Len(list) = Cardinality(safe) + Cardinality(mine)

\* The basic rules find nothing and subset elimination finds a move
C25_Witness ==
    /\ ~game_over
    /\ basic_logical_moves(grid) = <<>>
    /\ csp_next_moves(grid) # <<>>


\* The lists deterministic deduction returns in the current state: that of the
\* basic rules and that of CSPSolver.next_moves
DeductionLists == {basic_logical_moves(grid), csp_next_moves(grid)}

\* The coordinate of the i-th move of a list
Coord(list, i) == <<list[i].row, list[i].col>>

\* C26 as stated: the list returned by deterministic deduction is sorted by
\* coordinate, each move having a smaller (row, col) than every later one.
C26_SortedByCoordinate ==
    \A list \in DeductionLists :
        \A i, j \in DOMAIN list :
            i < j => TupleLess(Coord(list, i), Coord(list, j))

\* C26: the list returned by deterministic deduction holds the open moves in
\* increasing (row, col) order followed by the flag moves in increasing
\* (row, col) order.
C26_OpensThenFlagsSorted ==
    \A list \in DeductionLists :
        \A i, j \in DOMAIN list :
            i < j =>
                /\ ~(list[i].action = "flag" /\ list[j].action = "open")
                /\ list[i].action = list[j].action
                     => TupleLess(Coord(list, i), Coord(list, j))

\* A returned list with two opens and a flag whose coordinate is smaller than
\* that of an open
C26_Witness ==
    \E list \in DeductionLists :
        /\ Cardinality(Opens(list)) >= 2
        /\ \E f \in Flags(list) : \E o \in Opens(list) : TupleLess(f, o)


\* Every flag stands on a mine and no mine has been opened
FlagsCorrect ==
    \A rc \in Positions :
        /\ grid[rc].state = FLAGGED => grid[rc].is_mine
        /\ grid[rc].state = OPEN => ~grid[rc].is_mine

\* C27 as stated: in every reachable state no coordinate appears in more than
\* one move of the list returned by deterministic deduction.
C27_NoCoordinateTwice ==
    \A list \in DeductionLists :
        \A i, j \in DOMAIN list :
            i # j => Coord(list, i) # Coord(list, j)

\* C27: in every reachable state no coordinate appears in two Open moves nor
\* in two Flag moves of the list returned by deterministic deduction, and
\* while every flag is on a mine and no mine is open no coordinate appears in
\* two moves at all.
C27_NoCoordinateTwicePerAction ==
    \A list \in DeductionLists :
        \A i, j \in DOMAIN list :
            i # j =>
                /\ list[i].action = list[j].action => Coord(list, i) # Coord(list, j)
                /\ FlagsCorrect => Coord(list, i) # Coord(list, j)

\* With a flag on a safe cell, a cell is returned both as Open and as Flag,
\* and some cell of the list is deduced by two constraints
C27_Witness ==
    /\ ~game_over
    /\ \E rc \in Positions : grid[rc].state = FLAGGED /\ ~grid[rc].is_mine
    /\ \E list \in DeductionLists : Opens(list) \cap Flags(list) # {}
    /\ \E i, j \in DOMAIN build_constraints(grid) :
          /\ i # j
          /\ basic_rule(build_constraints(grid)[i]).open
               \cap basic_rule(build_constraints(grid)[j]).open # {}


\* ProbabilisticSolver.next_moves: the guesses it can return, that is, the
\* moves it takes from _probabilistic_move
Guesses(g, over) ==
    IF basic_logical_moves(g) # <<>> THEN {}
    ELSE probabilistic_move(g, over) \ {<<>>}

\* One turn of the driver's loop: the move lists it can get, each with the
\* solver it came from. CSPSolver is asked first, ProbabilisticSolver only
\* when that gave no move and the game is not over
ai_turn(g, over) ==
    LET returned == csp_next_moves(g)
    IN  IF returned # <<>> \/ over
        THEN {[solver |-> "csp", list |-> returned]}
        ELSE {[solver |-> "prob", list |-> list] : list \in prob_next_moves(g, over)}

\* C28 as stated: ProbabilisticSolver.next_moves returns a guess only in
\* states where the game is not over and neither the basic rules nor subset
\* elimination yields a move.
C28_GuessOnlyWithoutDeduction ==
    Guesses(grid, game_over) # {} => (~game_over /\ csp_next_moves(grid) = <<>>)

\* C28: ProbabilisticSolver.next_moves returns a guess only in states where
\* the game is not over and the basic rules yield no move, and a turn of the
\* driver, which asks CSPSolver first, gets a list from ProbabilisticSolver
\* only in states where the game is not over and neither the basic rules nor
\* subset elimination yields a move.
C28_GuessOnlyWithoutBasicMoves ==
    LET constraints == build_constraints(grid)
        basic == basic_moves(constraints)
    IN  /\ (game_over \/ basic # <<>>) => Guesses(grid, game_over) = {}
        /\ (game_over \/ basic # <<>> \/ subset_reasoning(constraints) # <<>>) =>
              \A turn \in ai_turn(grid, game_over) : turn.solver = "csp"

\* ProbabilisticSolver.next_moves returns a guess although subset elimination
\* has a move
C28_Witness ==
    /\ ~game_over
    /\ Guesses(grid, game_over) # {}
    /\ subset_reasoning(build_constraints(grid)) # <<>>


\* The unopened, unflagged cells
HiddenCells == {rc \in Positions : grid[rc].state = UNOPENED}

\* The anchors joined to those of S through shared unknown cells
RECURSIVE LinkedAnchors(_)
LinkedAnchors(S) ==
    LET more == {b \in Anchors :
                    \E a \in S : NeighboursIn(a, UNOPENED) \cap NeighboursIn(b, UNOPENED) # {}}
    IN  IF more \subseteq S THEN S ELSE LinkedAnchors(S \cup more)

\* (num_mines - flags) / hidden cells, clamped to [0, 1]
Baseline ==
    LET left == num_mines - Cardinality({rc \in Positions : grid[rc].state = FLAGGED})
        hidden == Cardinality(HiddenCells)
    IN  IF left < 0 THEN <<0, 1>> ELSE IF left > hidden THEN <<1, 1>> ELSE <<left, hidden>>

\* The mine probability of the hidden cell rc: among the assignments of mines
\* to the unknown cells of its component that meet every clue of the
\* component, the share of those with a mine on rc; the baseline when rc
\* touches no anchor, when the component has more than MAX_ENUM_UNKNOWNS
\* unknown cells, and when no assignment meets the clues
MineProbability(rc) ==
    LET touching == {a \in Anchors : rc \in NeighboursIn(a, UNOPENED)}
        comp == LinkedAnchors(touching)
        cells == UNION {NeighboursIn(a, UNOPENED) : a \in comp}
        valid == {A \in SUBSET cells :
                    \A a \in comp :
                        Cardinality(A \cap NeighboursIn(a, UNOPENED)) = Remaining(a)}
    IN  IF touching = {} \/ Cardinality(cells) > MAX_ENUM_UNKNOWNS \/ valid = {}
        THEN Baseline
        ELSE <<Cardinality({A \in valid : rc \in A}), Cardinality(valid)>>

\* The mine probability of each hidden cell, as a table
MineProbabilities == [rc \in HiddenCells |-> MineProbability(rc)] @@ <<>>

MinimalCells(prob) ==
    {rc \in DOMAIN prob : \A other \in DOMAIN prob : ~FracLess(prob[other], prob[rc])}

\* The minimal probability exceeds 0.25
Risky(prob) == \E rc \in MinimalCells(prob) : 4 * prob[rc][1] > prob[rc][2]

\* The hidden cells that are an unknown neighbour of some anchor
FrontierCells == {rc \in HiddenCells : \E a \in Anchors : rc \in NeighboursIn(a, UNOPENED)}

\* The cells a guess of ProbabilisticSolver.next_moves can open
GuessedCells == {Coord(list, 1) : list \in Guesses(grid, game_over)}

\* C30: when ProbabilisticSolver guesses, the cells it can choose are the
\* minimal cells outside the frontier if the minimal probability exceeds 0.25
\* and there is such a cell, and all the minimal cells otherwise (minimum at
\* most 0.25, or every minimal cell on the frontier).
C30_RiskGate ==
    (~game_over /\ basic_logical_moves(grid) = <<>> /\ HiddenCells # {}) =>
        LET prob == MineProbabilities
            minimal == MinimalCells(prob)
            outside == minimal \ FrontierCells
        IN  GuessedCells = IF Risky(prob) /\ outside # {} THEN outside ELSE minimal

\* A guess with minimal probability above 0.25 and minimal cells both on the
\* frontier and outside it
C30_Witness ==
    LET prob == MineProbabilities
    IN  /\ ~game_over
        /\ Guesses(grid, game_over) # {}
        /\ Risky(prob)
        /\ MinimalCells(prob) \cap FrontierCells # {}
        /\ MinimalCells(prob) \ FrontierCells # {}


\* C31: every _flood_fill_open call open_cell can make comes to an end, after
\* as many iterations as it pushed coordinates; each coordinate is pushed only
\* while UNOPENED, and no coordinate is marked OPEN twice in one call.
C31_FloodFillTerminates ==
    \A call \in FillCalls :
        LET run == flood_fill_trace(call[1], call[2][1], call[2][2])
        IN  /\ run.iterations = Len(run.pushed)
            /\ run.iterations <= 1 + 8 * Cardinality(Positions)
            /\ \A i \in DOMAIN run.pushed : run.pushed[i].unopened
            /\ \A i, j \in DOMAIN run.marked : i # j => run.marked[i] # run.marked[j]
            /\ run.grid = flood_fill_open(call[1], call[2][1], call[2][2]).grid

\* A fill that pushed some coordinate twice and so ran more iterations than
\* it marked cells
C31_Witness ==
    \E call \in FillCalls :
        LET run == flood_fill_trace(call[1], call[2][1], call[2][2])
        IN  /\ run.iterations > Len(run.marked)
            /\ \E i, j \in DOMAIN run.pushed :
                  i # j /\ run.pushed[i].rc = run.pushed[j].rc
            /\ \E f \in Positions : call[1][f].state = FLAGGED


\* C32: once mines_placed is true, no step of open_cell, flag_cell,
\* reveal_all_mines or play_step (next_moves and the moves it applies) changes
\* is_mine or adjacent_mines of any cell, and mines_placed stays true.
C32_MinesPlacedOnce ==
    [][mines_placed =>
         /\ mines_placed'
         /\ \A rc \in Positions :
               /\ grid'[rc].is_mine = grid[rc].is_mine
               /\ grid'[rc].adjacent_mines = grid[rc].adjacent_mines]_vars

\* Mines are placed, a solver step has been applied, the game is lost and the
\* mines are all revealed
C32_Witness ==
    /\ mines_placed
    /\ moves # <<>>
    /\ Lost
    /\ Mines # {}
    /\ \A rc \in Mines : grid[rc].state = OPEN
    /\ Cardinality(Mines) = num_mines


\* The flag moves of a list target UNOPENED cells, each cell once
FlagMovesFresh(list) ==
    \A i \in DOMAIN list :
        list[i].action = "flag" =>
            /\ grid[Coord(list, i)].state = UNOPENED
            /\ \A j \in DOMAIN list :
                  (j # i /\ list[j].action = "flag") => Coord(list, j) # Coord(list, i)

\* C33: on every play_step of CSPSolver or ProbabilisticSolver (the steps
\* that hand a non-empty list to the caller), the flag moves of the list
\* target cells that were UNOPENED before the step, no cell twice, and every
\* cell that was FLAGGED before the step is FLAGGED after it.
C33_SolverKeepsFlags ==
    [][moves' # <<>> =>
         /\ FlagMovesFresh(moves')
         /\ \A rc \in Positions :
               grid[rc].state = FLAGGED => grid'[rc].state = FLAGGED]_vars

\* A play_step has flagged a cell on a board where the player's flag stands on
\* another cell, and both flags are there
C33_Witness ==
    /\ Flags(moves) # {}
    /\ \A rc \in Flags(moves) : grid[rc].state = FLAGGED
    /\ \E rc \in Positions \ Flags(moves) : grid[rc].state = FLAGGED


\* C34: every play_step of either solver that starts with the game not over
\* and returns a non-empty list leaves strictly fewer UNOPENED cells than it
\* found, so the loop of play_game, which stops at game_over or at an empty
\* list, runs at most rows * cols steps.
C34_PlayStepMakesProgress ==
    [][(~game_over /\ moves' # <<>>) =>
          /\ Cardinality(unopened_cells(grid')) < Cardinality(unopened_cells(grid))
          /\ Cardinality(unopened_cells(grid)) <= rows * cols]_vars

\* A play_step has returned a list of two moves or more on a board with a
\* flag, and the game is still not over
C34_Witness ==
    /\ ~game_over
    /\ Len(moves) >= 2
    /\ \E rc \in Positions \ Flags(moves) : grid[rc].state = FLAGGED
    /\ \A i \in DOMAIN moves : grid[Coord(moves, i)].state # UNOPENED


\* C35: in a game played by ProbabilisticSolver alone, from the fresh board
\* with or without a first open_cell, next_moves never returns the empty list
\* while the game is not over, and the game eventually reaches game_over.
C35_SolverGameEnds ==
    /\ [](~game_over => <<>> \notin prob_next_moves(grid, game_over))
    /\ <>game_over

\* The solver has played to the end of a game in which it set a flag, and its
\* last play_step was a guess that opened a mine
C35_Witness ==
    /\ Lost
    /\ Len(moves) = 1 /\ moves[1].action = "open"
    /\ grid[Coord(moves, 1)].is_mine
    /\ \E rc \in Positions : grid[rc].state = FLAGGED


\* C36: in a game where one cell of the fresh board is opened and every later
\* change is made by CSPSolver.play_step, every FLAGGED cell is a mine and the
\* game is never lost.
C36_CspPlayNeverLoses ==
    /\ \A rc \in Positions : grid[rc].state = FLAGGED => grid[rc].is_mine
    /\ ~Lost

\* CSPSolver has set a flag in one step and, in a later step, opened a cell
\* and won the game
C36_Witness ==
    /\ game_over /\ win
    /\ Opens(moves) # {}
    /\ \A rc \in Opens(moves) : grid[rc].state = OPEN
    /\ \E rc \in Positions : grid[rc].state = FLAGGED

====
